---- MODULE Spec2Model ----
(***************************************************************************)
(* Model of scripts/post_to_telegram.py: one scheduled run loads the       *)
(* publication state, fetches the coupon feed, filters and sorts it,       *)
(* selects the next unpublished coupon (or resets the cycle), posts it and *)
(* records the post in the state file.                                     *)
(*                                                                         *)
(* JSON scalars are records [tag, n]; date strings are records [kind, t];  *)
(* a Python call that may raise returns a record [raised, ...].            *)
(***************************************************************************)
EXTENDS Integers, Sequences, FiniteSets, TLC

\* ------------------------------------------------------------------ bounds
MaxTime == 3
MaxPosts == 4

\* Process slots. The scheduler's triggers are hours apart, so every run of
\* Spec uses slot 1, one run after the other.
Procs == {1, 2}
Scheduled == {1}

\* Python's None where an integer is expected (last_run of a fresh state).
None == -1

\* ------------------------------------------------------- JSON field values
Missing == [tag |-> "missing", n |-> 0]
Null == [tag |-> "null", n |-> 0]
IntV(k) == [tag |-> "int", n |-> k]
NumStr(k) == [tag |-> "numstr", n |-> k]
BadStr == [tag |-> "badstr", n |-> 0]

\* Python truthiness of a JSON scalar: None and 0 are falsy, every
\* non-empty string (also "0") is truthy.
Truthy(v) ==
  CASE v.tag = "missing" -> FALSE
    [] v.tag = "null" -> FALSE
    [] v.tag = "int" -> v.n # 0
    [] OTHER -> TRUE

\* a or b
PyOr(a, b) == IF Truthy(a) THEN a ELSE b

\* int(v): a number or a numeric string converts, anything else raises.
PyInt(v) ==
  IF v.tag \in {"int", "numstr"}
    THEN [raised |-> FALSE, val |-> v.n]
    ELSE [raised |-> TRUE, val |-> 0]

\* ------------------------------------------------------------ date strings
NoDate == [kind |-> "absent", t |-> 0]
Naive(t) == [kind |-> "naive", t |-> t]
Aware(t) == [kind |-> "aware", t |-> t]
BadDate == [kind |-> "bad", t |-> 0]
Epoch == Naive(0)

DateTruthy(d) == d.kind # "absent"

\* date_parser.parse(s): a datetime with or without tzinfo, or an exception.
date_parse(d) ==
  IF d.kind \in {"naive", "aware"}
    THEN [raised |-> FALSE, aware |-> d.kind = "aware", t |-> d.t]
    ELSE [raised |-> TRUE, aware |-> FALSE, t |-> 0]

\* ------------------------------------------------------------------ coupons
\* The caption fields of a record are kept by length alone, in code points
\* of the value as an f-string formats it, 0 for a missing or falsy value:
\* title, discount_text, code, countries, note, expires_at, purchase_link.
DateLen(d) ==
  CASE d.kind = "absent" -> 0
    [] d.kind = "bad" -> 10
    [] OTHER -> 19

Coupon(cid, id, vis, exp, created, store, logo) ==
  [coupon_id |-> cid, id |-> id, is_visible |-> vis, expires_at |-> exp,
   created_at |-> created, store |-> store, logo_url |-> logo,
   text |-> <<5, 0, 4, 0, 0, DateLen(exp), 0>>]

\* Faulty variant of coupon_int_id: the two field names are tried in the other order.
coupon_int_id_swapped(c) == PyInt(PyOr(PyOr(c.id, c.coupon_id), IntV(0)))

\* int(c.get("coupon_id") or c.get("id") or 0)
coupon_int_id(c) == PyInt(PyOr(PyOr(c.coupon_id, c.id), IntV(0)))

\* Faulty variant of NotExpired: a coupon expiring this instant still counts.
NotExpiredYet(t, clock) == t >= clock

\* The comparison `dt > datetime.now(timezone.utc)` of is_valid_coupon.
NotExpired(t, clock) == t > clock

\* Faulty variant of is_valid_coupon: the visibility flag is not looked at.
is_valid_unchecked_flag(c, clock) ==
  LET dt == date_parse(c.expires_at)
  IN IF ~DateTruthy(c.expires_at) THEN TRUE
     ELSE IF dt.raised THEN FALSE
     ELSE NotExpired(dt.t, clock)

\* Faulty variant of is_valid_coupon: the expiry is not looked at.
is_valid_ignoring_expiry(c, clock) ==
  LET vis == PyInt(IF c.is_visible.tag = "missing" THEN IntV(0) ELSE c.is_visible)
  IN IF vis.raised THEN FALSE ELSE vis.val = 1

\* is_valid_coupon: every exception inside is caught and yields False.
is_valid_coupon(c, clock) ==
  LET vis == PyInt(IF c.is_visible.tag = "missing" THEN IntV(0) ELSE c.is_visible)
      dt == date_parse(c.expires_at)
  IN IF vis.raised THEN FALSE
     ELSE IF vis.val # 1 THEN FALSE
     ELSE IF ~DateTruthy(c.expires_at) THEN TRUE
     ELSE IF dt.raised THEN FALSE
     ELSE NotExpired(dt.t, clock)

\* valid = [c for c in coupons if is_valid_coupon(c)], as feed positions.
RECURSIVE ValidFrom(_, _, _)
ValidFrom(cs, i, clock) ==
  IF i > Len(cs) THEN <<>>
  ELSE IF is_valid_coupon(cs[i], clock)
         THEN <<i>> \o ValidFrom(cs, i + 1, clock)
         ELSE ValidFrom(cs, i + 1, clock)

\* The date string sort_key parses: created_at or expires_at or "1970-01-01".
KeySource(c) ==
  IF DateTruthy(c.created_at) THEN c.created_at
  ELSE IF DateTruthy(c.expires_at) THEN c.expires_at
  ELSE Epoch

\* sort_key: the parsed datetime (naive or aware as written); on any parse
\* error the aware datetime.now(timezone.utc).
sort_key(c, clock) ==
  LET r == date_parse(KeySource(c))
  IN IF r.raised THEN [aware |-> TRUE, t |-> clock]
     ELSE [aware |-> r.aware, t |-> r.t]

\* Faulty variant of GoesBefore: equal keys change places.
GoesBeforeOrEqual(kx, ky) == kx.t <= ky.t

\* Faulty variant of GoesBefore: the order is descending, newest first.
GoesBeforeDescending(kx, ky) == kx.t > ky.t

\* Where list.sort puts x in an already sorted run: to the right of every
\* element that is not greater (x < pivot decides), which keeps equal keys
\* in their original order.
GoesBefore(kx, ky) == kx.t < ky.t

RECURSIVE InsertSorted(_, _, _)
InsertSorted(x, s, K) ==
  IF s = <<>> THEN <<x>>
  ELSE IF GoesBefore(K[x], K[Head(s)]) THEN <<x>> \o s
  ELSE <<Head(s)>> \o InsertSorted(x, Tail(s), K)

RECURSIVE SortFrom(_, _, _, _)
SortFrom(s, k, acc, K) ==
  IF k > Len(s) THEN acc
  ELSE SortFrom(s, k + 1, InsertSorted(s[k], acc, K), K)

\* sorted(valid, key=sort_key): comparing a naive with an aware datetime
\* raises TypeError; a list of one element is never compared.
sorted_valid(cs, valid, clock) ==
  LET K == [i \in 1..Len(cs) |-> sort_key(cs[i], clock)]
      mixed == \E a \in 1..Len(valid), b \in 1..Len(valid) :
                 K[valid[a]].aware # K[valid[b]].aware
  IN IF mixed THEN [raised |-> TRUE, seq |-> <<>>]
     ELSE [raised |-> FALSE, seq |-> SortFrom(valid, 1, <<>>, K)]

\* Faulty variant of FindNext: the published set is not consulted.
FindNextUnfiltered(cs, vs, k, pub) == [raised |-> FALSE, idx |-> vs[1]]

\* The scan for the next unposted coupon: int() of an identifier raises
\* ValueError outside any try block; 0 stands for next_coupon = None.
RECURSIVE FindNext(_, _, _, _)
FindNext(cs, vs, k, pub) ==
  IF k > Len(vs) THEN [raised |-> FALSE, idx |-> 0]
  ELSE LET cid == coupon_int_id(cs[vs[k]])
       IN IF cid.raised THEN [raised |-> TRUE, idx |-> 0]
          ELSE IF cid.val \notin pub THEN [raised |-> FALSE, idx |-> vs[k]]
          ELSE FindNext(cs, vs, k + 1, pub)

\* next_coupon.get("store", {}).get("logo_url") or next_coupon.get("logo_url") or ""
\* A null store has no .get (AttributeError).
photo_url(c) ==
  IF c.store = "null" THEN [raised |-> TRUE, has |-> FALSE]
  ELSE [raised |-> FALSE, has |-> (c.store = "logo") \/ c.logo_url]

\* sorted(list(published_ids))
RECURSIVE SortedList(_)
SortedList(S) ==
  IF S = {} THEN <<>>
  ELSE LET m == CHOOSE x \in S : \A y \in S : x <= y
       IN <<m>> \o SortedList(S \ {m})

\* set(state.get("published_ids", []))
SetOf(s) == {s[i] : i \in 1..Len(s)}

\* Faulty variant of Acked: any decoded answer counts as success.
AckedAnyAnswer(r) == r.json

\* `resp and resp.get("ok")`
Acked(r) == r.json /\ r.has_ok /\ r.ok

\* ------------------------------------------------------- the feeds of a run
cOld == Coupon(Missing, IntV(1), IntV(1), NoDate, Naive(1), "logo", FALSE)
cMid == Coupon(NumStr(2), IntV(3), NumStr(1), Naive(3), Naive(2), "missing", TRUE)
cNew == Coupon(Null, IntV(3), IntV(1), NoDate, Naive(3), "nologo", FALSE)
cPlainA == Coupon(Missing, IntV(1), IntV(1), NoDate, NoDate, "missing", FALSE)
cPlainB == Coupon(Missing, IntV(2), IntV(1), NoDate, NoDate, "missing", FALSE)
cHidden == Coupon(IntV(3), Missing, IntV(0), NoDate, Naive(1), "logo", FALSE)
cExpired == Coupon(IntV(2), Missing, IntV(1), Aware(1), Naive(1), "logo", FALSE)
cBadVis == Coupon(IntV(1), Missing, BadStr, NoDate, NoDate, "logo", FALSE)
cBadExp == Coupon(IntV(1), Missing, IntV(1), BadDate, NoDate, "logo", FALSE)
cBadCreated == Coupon(IntV(3), Missing, IntV(1), NoDate, BadDate, "logo", FALSE)
cAware == Coupon(IntV(1), Missing, IntV(1), NoDate, Aware(2), "logo", FALSE)
cNoIdA == Coupon(Missing, Missing, IntV(1), NoDate, Naive(2), "missing", FALSE)
cNoIdB == Coupon(Null, IntV(0), IntV(1), NoDate, Naive(1), "missing", TRUE)
cBadId == Coupon(BadStr, IntV(1), IntV(1), NoDate, NoDate, "logo", FALSE)
cNullStore == Coupon(IntV(2), Missing, IntV(1), NoDate, NoDate, "null", TRUE)

\* What fetch_coupons can return: [] for a failed fetch or an empty
\* payload, otherwise the list of records of the payload.
Feeds ==
  { <<>>,
    <<cNew, cMid, cOld>>,
    <<cPlainA, cPlainB>>,
    <<cHidden, cExpired, cBadVis, cBadExp>>,
    <<cOld, cHidden, cExpired>>,
    <<cOld, cBadCreated>>,
    <<cBadCreated, cAware>>,
    <<cNoIdA, cNoIdB>>,
    <<cBadId>>,
    <<cNullStore>> }

\* What the delivery call can return: None (network error, HTTP error
\* status, undecodable body) or the decoded acknowledgment.
NoResp == [json |-> FALSE, has_ok |-> FALSE, ok |-> FALSE]
Resps ==
  { NoResp,
    [json |-> TRUE, has_ok |-> TRUE, ok |-> TRUE],
    [json |-> TRUE, has_ok |-> TRUE, ok |-> FALSE],
    [json |-> TRUE, has_ok |-> FALSE, ok |-> FALSE] }

\* -------------------------------------------------------------------- state
VARIABLES
  file,           \* the state file: missing, decodable JSON, or cut short
  now,            \* the UTC clock
  pc,             \* position of each run
  state,          \* the dict returned by load_state, as main mutates it
  published_ids,  \* main's local set
  coupons,        \* the list returned by fetch_coupons
  valid_sorted,   \* feed positions of the valid coupons in sorted order
  next_coupon,    \* feed position of the selected coupon, 0 for None
  resp,           \* the acknowledgment of the delivery call
  exit_code,      \* process exit status, None while running
  calls,          \* delivery calls made by the run: method and caption
  did_reset,      \* the run took the cycle-reset branch
  git,            \* how git_commit_and_push ended ("none" before it ran)
  selected_at,    \* history: the clock when the run sorted and selected
  ended_in,       \* the step in which the run ended ("none" while running)
  pre,            \* history: the state file as the run found it (at startup,
                  \* and again when load_state read it)
  recorded,       \* history: identifiers whose acknowledged post was saved
  hist            \* history: the runs so far, while they repeat one feed

vars == <<file, now, pc, state, published_ids, coupons, valid_sorted,
          next_coupon, resp, exit_code, calls, did_reset, git, selected_at,
          ended_in, pre, recorded, hist>>

NoFile == [kind |-> "missing", published_ids |-> <<>>, last_run |-> None]
CutFile == [kind |-> "partial", published_ids |-> <<>>, last_run |-> None]
JsonFile(st) ==
  [kind |-> "json", published_ids |-> st.published_ids, last_run |-> st.last_run]

\* load_state's value when the file does not exist.
FreshState == [published_ids |-> <<>>, last_run |-> None]

\* History of the runs so far. It is kept for as long as every run fetched
\* the same feed, found every coupon of it valid and had its delivery
\* acknowledged; posts lists the acknowledged deliveries in order (feed
\* position and the clock at selection), written tells whether every save
\* went through. Once a run departs from that, the history is Departed.
NoRuns == [steady |-> TRUE, started |-> FALSE, feed |-> <<>>, posts |-> <<>>,
           written |-> TRUE]
Departed == [steady |-> FALSE, started |-> TRUE, feed |-> <<>>, posts |-> <<>>,
             written |-> TRUE]
Keep(h, cond) == IF h.steady /\ cond THEN h ELSE Departed

\* History: the identifier of a record as the feed defines it, the first
\* non-empty of coupon_id and id, 0 without either.
FeedId(c) ==
  IF Truthy(c.coupon_id) THEN c.coupon_id.n
  ELSE IF Truthy(c.id) THEN c.id.n
  ELSE 0

Init ==
  /\ file = NoFile
  /\ now = 1
  /\ pc = [p \in Procs |-> "idle"]
  /\ state = [p \in Procs |-> FreshState]
  /\ published_ids = [p \in Procs |-> {}]
  /\ coupons = [p \in Procs |-> <<>>]
  /\ valid_sorted = [p \in Procs |-> <<>>]
  /\ next_coupon = [p \in Procs |-> 0]
  /\ resp = [p \in Procs |-> NoResp]
  /\ exit_code = [p \in Procs |-> None]
  /\ calls = [p \in Procs |-> <<>>]
  /\ did_reset = [p \in Procs |-> FALSE]
  /\ git = [p \in Procs |-> "none"]
  /\ selected_at = [p \in Procs |-> 0]
  /\ ended_in = [p \in Procs |-> "none"]
  /\ pre = [p \in Procs |-> NoFile]
  /\ recorded = {}
  /\ hist = NoRuns

\* Faulty variant of ExitStatus: a failed delivery ends with the status of
\* missing configuration.
ExitStatusErrorsAlike(site) ==
  CASE site = "startup" -> 2
    [] site = "post" -> 2
    [] OTHER -> 0

\* Faulty variant of ExitStatus: an exception while recording the post is
\* not swallowed into status 0.
ExitStatusRecordFails(site) ==
  CASE site = "startup" -> 2
    [] site \in {"post", "record", "dump"} -> 1
    [] OTHER -> 0

\* The status of each way main ends without a traceback: 2 for missing
\* configuration (line 33), 1 for a delivery without ok (line 254), 0 for
\* the early exits of lines 178 and 185 and for the return after the try
\* block of lines 241-251, whether or not its body raised.
ExitStatus(site) ==
  CASE site = "startup" -> 2
    [] site = "post" -> 1
    [] OTHER -> 0

\* sys.exit(code), or an uncaught exception (traceback, status 1).
Exit(p, code) ==
  /\ pc' = [pc EXCEPT ![p] = "exited"]
  /\ ended_in' = [ended_in EXCEPT ![p] = pc[p]]
  /\ exit_code' = [exit_code EXCEPT ![p] = code]

Crash(p) ==
  /\ pc' = [pc EXCEPT ![p] = "crashed"]
  /\ ended_in' = [ended_in EXCEPT ![p] = pc[p]]
  /\ exit_code' = [exit_code EXCEPT ![p] = 1]

Goto(p, l) ==
  /\ pc' = [pc EXCEPT ![p] = l]
  /\ UNCHANGED <<exit_code, ended_in>>

\* The clock moves on between runs: a run takes seconds, the unit of the
\* clock is the scheduler's period.
Tick ==
  /\ now < MaxTime
  /\ \A p \in Procs : pc[p] \in {"idle", "exited", "crashed"}
  /\ now' = now + 1
  /\ UNCHANGED <<file, pc, state, published_ids, coupons, valid_sorted,
                 next_coupon, resp, exit_code, calls, did_reset, git,
                 selected_at, ended_in, pre, recorded, hist>>

\* A scheduled trigger starts the script; the module-level check exits with
\* status 2 when the token or the chat id is not set.
Startup(p) ==
  /\ pc[p] \in {"idle", "exited", "crashed"}
  /\ Len(hist.posts) < MaxPosts
  /\ state' = [state EXCEPT ![p] = FreshState]
  /\ published_ids' = [published_ids EXCEPT ![p] = {}]
  /\ coupons' = [coupons EXCEPT ![p] = <<>>]
  /\ valid_sorted' = [valid_sorted EXCEPT ![p] = <<>>]
  /\ next_coupon' = [next_coupon EXCEPT ![p] = 0]
  /\ resp' = [resp EXCEPT ![p] = NoResp]
  /\ calls' = [calls EXCEPT ![p] = <<>>]
  /\ did_reset' = [did_reset EXCEPT ![p] = FALSE]
  /\ git' = [git EXCEPT ![p] = "none"]
  /\ selected_at' = [selected_at EXCEPT ![p] = 0]
  /\ pre' = [pre EXCEPT ![p] = file]
  /\ \E configured \in BOOLEAN :
       IF configured
         THEN /\ pc' = [pc EXCEPT ![p] = "load"]
              /\ exit_code' = [exit_code EXCEPT ![p] = None]
              /\ ended_in' = [ended_in EXCEPT ![p] = "none"]
         ELSE /\ pc' = [pc EXCEPT ![p] = "exited"]
              /\ exit_code' = [exit_code EXCEPT ![p] = ExitStatus("startup")]
              /\ ended_in' = [ended_in EXCEPT ![p] = "startup"]
  /\ UNCHANGED <<file, now, recorded, hist>>

\* state = load_state(STATE_FILE); published_ids = set(...)
LoadState(p) ==
  /\ pc[p] = "load"
  /\ pre' = [pre EXCEPT ![p] = file]
  /\ IF file.kind = "partial"
       THEN /\ Crash(p)
            /\ UNCHANGED <<state, published_ids>>
       ELSE /\ state' = [state EXCEPT ![p] =
                 IF file.kind = "missing" THEN FreshState
                 ELSE [published_ids |-> file.published_ids,
                       last_run |-> file.last_run]]
            /\ published_ids' = [published_ids EXCEPT ![p] =
                 SetOf(state'[p].published_ids)]
            /\ Goto(p, "fetch")
  /\ UNCHANGED <<file, now, coupons, valid_sorted, next_coupon, resp, calls,
                 did_reset, git, selected_at, recorded, hist>>

\* coupons = fetch_coupons(), the feed answering with one of `feeds`; an
\* empty list ends the run with status 0.
FetchFrom(p, feeds) ==
  /\ pc[p] = "fetch"
  /\ \E f \in feeds :
       /\ coupons' = [coupons EXCEPT ![p] = f]
       /\ hist' = IF ~hist.started
                    THEN [hist EXCEPT !.started = TRUE, !.feed = f]
                    ELSE Keep(hist, f = hist.feed)
       /\ IF f = <<>> THEN Exit(p, ExitStatus("fetch")) ELSE Goto(p, "select")
  /\ UNCHANGED <<file, now, state, published_ids, valid_sorted, next_coupon,
                 resp, calls, did_reset, git, selected_at, pre, recorded>>

FetchCoupons(p) == FetchFrom(p, Feeds)

\* Faulty variant of ResetSet: the set is not cleared.
ResetSetKept(pub) == pub

\* published_ids = set()
ResetSet(pub) == {}

\* Faulty variant of ResetState: the dict keeps its list.
ResetStateKept(st) == st

\* state["published_ids"] = []
ResetState(st) == [st EXCEPT !.published_ids = <<>>]

\* Lines 181-214: filter, sort, scan for the next unposted coupon, and the
\* cycle reset when the scan finds none. The test of line 212 never
\* succeeds: a record that passed the filter is a non-empty dict.
SelectNext(p) ==
  /\ pc[p] = "select"
  /\ LET cs == coupons[p]
         valid == ValidFrom(cs, 1, now)
         srt == sorted_valid(cs, valid, now)
         found == FindNext(cs, srt.seq, 1, published_ids[p])
     IN /\ hist' = Keep(hist, Len(valid) = Len(cs))
        /\ selected_at' = [selected_at EXCEPT ![p] = now]
        /\ IF valid = <<>>
             THEN /\ Exit(p, ExitStatus("select"))
                  /\ UNCHANGED <<state, published_ids, valid_sorted,
                                 next_coupon, did_reset>>
           ELSE IF srt.raised \/ found.raised
             THEN /\ Crash(p)
                  /\ UNCHANGED <<state, published_ids, valid_sorted,
                                 next_coupon, did_reset>>
           ELSE IF found.idx = 0
             THEN /\ published_ids' = [published_ids EXCEPT ![p] = ResetSet(@)]
                  /\ state' = [state EXCEPT ![p] = ResetState(@)]
                  /\ valid_sorted' = [valid_sorted EXCEPT ![p] = srt.seq]
                  /\ next_coupon' = [next_coupon EXCEPT ![p] = srt.seq[1]]
                  /\ did_reset' = [did_reset EXCEPT ![p] = TRUE]
                  /\ Goto(p, "post")
           ELSE /\ valid_sorted' = [valid_sorted EXCEPT ![p] = srt.seq]
                /\ next_coupon' = [next_coupon EXCEPT ![p] = found.idx]
                /\ Goto(p, "post")
                /\ UNCHANGED <<state, published_ids, did_reset>>
  /\ UNCHANGED <<file, now, coupons, resp, calls, git, pre, recorded>>

\* ------------------------------------------------------------------ caption
TELEGRAM_CAPTION_MAX == 1000

\* A text made of the first `units` code points of the joined parts,
\* followed by `dots` full stops.
Text(units, dots) == [units |-> units, dots |-> dots]
StrLen(s) == s.units + s.dots
\* s[:n] and s + "..."
Slice(s, n) ==
  IF n >= StrLen(s) THEN s
  ELSE IF n <= s.units THEN Text(n, 0)
  ELSE Text(s.units, n - s.units)
WithEllipsis(s) == Text(s.units, s.dots + 3)

\* The lengths of the labels put before the seven fields (lines 103-139)
\* and of the three closing parts (lines 143-145).
Labels == <<2, 2, 12, 12, 11, 13, 16>>
Footer == <<35, 0, 28>>

\* The list `parts`, by lengths: for a non-empty field its labelled line
\* and an empty line, then the three closing parts.
RECURSIVE PartsFrom(_, _)
PartsFrom(text, i) ==
  IF i > Len(text) THEN Footer
  ELSE IF text[i] # 0
         THEN <<Labels[i] + text[i], 0>> \o PartsFrom(text, i + 1)
         ELSE PartsFrom(text, i + 1)

\* len("\n".join(parts))
RECURSIVE JoinLen(_)
JoinLen(parts) ==
  IF Len(parts) = 1 THEN parts[1]
  ELSE parts[1] + 1 + JoinLen(Tail(parts))

\* Faulty variant of Truncate: the slice keeps TELEGRAM_CAPTION_MAX units.
TruncateToMax(s) ==
  IF StrLen(s) > TELEGRAM_CAPTION_MAX
    THEN WithEllipsis(Slice(s, TELEGRAM_CAPTION_MAX))
    ELSE s

\* Lines 150-151.
Truncate(s) ==
  IF StrLen(s) > TELEGRAM_CAPTION_MAX
    THEN WithEllipsis(Slice(s, TELEGRAM_CAPTION_MAX - 3))
    ELSE s

\* make_caption. The joined text begins with the emoji of its first label
\* and ends with the "/" of the site address, so strip() removes nothing.
make_caption(c) == Truncate(Text(JoinLen(PartsFrom(c.text, 1)), 0))

\* Faulty variant of AfterPost: a failed call is tried again.
AfterPostRetry(r) == IF Acked(r) THEN "record" ELSE "post"

\* Where main goes after the delivery call: on to the try block of line
\* 241, or to sys.exit of line 254. There is no second attempt.
AfterPost(r) == IF Acked(r) THEN "record" ELSE "exit"

\* Lines 216-239 and 252-254: one sendPhoto or sendMessage call; without an
\* acknowledgment with ok the run ends with status 1. The caption is text
\* only and decides nothing here.
PostToTelegram(p) ==
  /\ pc[p] = "post"
  /\ LET c == coupons[p][next_coupon[p]]
         photo == photo_url(c)
     IN IF photo.raised
          THEN /\ Crash(p)
               /\ UNCHANGED <<resp, calls, hist>>
          ELSE \E r \in Resps :
                 /\ resp' = [resp EXCEPT ![p] = r]
                 /\ calls' = [calls EXCEPT ![p] =
                      Append(@, [method |-> IF photo.has THEN "photo"
                                            ELSE "text",
                                 caption |-> make_caption(c)])]
                 /\ hist' = IF hist.steady /\ r.json /\ r.has_ok /\ r.ok
                              THEN [hist EXCEPT !.posts = Append(@,
                                      [i |-> next_coupon[p],
                                       at |-> selected_at[p]])]
                              ELSE Departed
                 /\ IF AfterPost(r) = "exit"
                      THEN Exit(p, ExitStatus("post"))
                      ELSE Goto(p, AfterPost(r))
  /\ UNCHANGED <<file, now, state, published_ids, coupons, valid_sorted,
                 next_coupon, did_reset, git, selected_at, pre, recorded>>

\* History: the identifier the run delivered, if the delivery call of the
\* run was acknowledged with ok = true.
Delivered(p) ==
  IF calls[p] # <<>> /\ resp[p].json /\ resp[p].has_ok /\ resp[p].ok
    THEN {FeedId(coupons[p][next_coupon[p]])}
    ELSE {}

\* The set main saves: published_ids.add(cid)
\* Faulty variant of WithPosted: the set is replaced by the new identifier.
WithPostedOnly(pub, cid) == {cid}

\* Faulty variant of WithPosted: the identifiers the file holds by now are
\* merged in before the write.
WithPostedMerged(pub, cid) == pub \cup {cid} \cup SetOf(file.published_ids)

WithPosted(pub, cid) == pub \cup {cid}

\* Lines 241-245 and the open(path, "w") of save_state, which empties the
\* file; an exception is caught at line 250 and the run ends with status 0.
RecordOpen(p) ==
  /\ pc[p] = "record"
  /\ LET cid == coupon_int_id(coupons[p][next_coupon[p]])
     IN IF cid.raised
          THEN /\ Exit(p, ExitStatus("record"))
               /\ hist' = [hist EXCEPT !.written = FALSE]
               /\ UNCHANGED <<file, state, published_ids>>
          ELSE /\ published_ids' = [published_ids EXCEPT ![p] =
                    WithPosted(@, cid.val)]
               /\ state' = [state EXCEPT ![p] =
                    [published_ids |-> SortedList(published_ids'[p]),
                     last_run |-> now]]
               /\ \E opened \in BOOLEAN :
                    IF opened
                      THEN /\ file' = CutFile
                           /\ Goto(p, "dump")
                           /\ UNCHANGED hist
                      ELSE /\ Exit(p, ExitStatus("record"))
                           /\ hist' = [hist EXCEPT !.written = FALSE]
                           /\ UNCHANGED file
  /\ UNCHANGED <<now, coupons, valid_sorted, next_coupon, resp, calls,
                 did_reset, git, selected_at, pre, recorded>>

\* json.dump and the close of the file: the document reaches the file, or
\* an I/O error leaves it cut short (caught at line 250, status 0).
RecordDump(p) ==
  /\ pc[p] = "dump"
  /\ \E written \in BOOLEAN :
       IF written
         THEN /\ file' = JsonFile(state[p])
              /\ recorded' = recorded \cup Delivered(p)
              /\ Goto(p, "git")
              /\ UNCHANGED hist
         ELSE /\ Exit(p, ExitStatus("dump"))
              /\ hist' = [hist EXCEPT !.written = FALSE]
              /\ UNCHANGED <<file, recorded>>
  /\ UNCHANGED <<now, state, published_ids, coupons, valid_sorted,
                 next_coupon, resp, calls, did_reset, git, selected_at, pre>>

\* git_commit_and_push: a failing git command is caught inside, any other
\* exception at line 250; the run ends with status 0 either way.
GitOutcomes == {"pushed", "failed", "raised"}

\* Faulty variant of GitStatus: an exception other than CalledProcessError escapes.
GitStatusUncaught(g) == IF g = "raised" THEN 1 ELSE 0

\* The status the run ends with after git_commit_and_push: "failed" is
\* caught at line 54, "raised" at line 250, and main returns.
GitStatus(g) == 0

GitCommitAndPush(p) ==
  /\ pc[p] = "git"
  /\ \E g \in GitOutcomes :
       /\ git' = [git EXCEPT ![p] = g]
       /\ Exit(p, GitStatus(g))
  /\ UNCHANGED <<file, now, state, published_ids, coupons, valid_sorted,
                 next_coupon, resp, calls, did_reset, selected_at, pre,
                 recorded, hist>>

Run(p) ==
  \/ Startup(p)
  \/ LoadState(p)
  \/ FetchCoupons(p)
  \/ SelectNext(p)
  \/ PostToTelegram(p)
  \/ RecordOpen(p)
  \/ RecordDump(p)
  \/ GitCommitAndPush(p)

Next ==
  \/ Tick
  \/ \E p \in Scheduled : Run(p)

Spec == Init /\ [][Next]_vars

TypeOK ==
  /\ file.kind \in {"missing", "json", "partial"}
  /\ now \in 1..MaxTime
  /\ \A p \in Procs :
       /\ pc[p] \in {"idle", "load", "fetch", "select", "post", "record",
                     "dump", "git", "exited", "crashed"}
       /\ exit_code[p] \in {None, 0, 1, 2}
       /\ next_coupon[p] \in 0..Len(coupons[p])
       /\ Len(calls[p]) <= 1

\* ----------------------------------------------------------------- claims
\* The terms of the claims, stated on the feed records and the run's
\* observable outcome rather than through the operators of the model.

\* The run has ended.
Ended(p) == pc[p] \in {"exited", "crashed"}

\* The run made its delivery call and got an acknowledgment with ok = true.
DeliveryAcked(p) ==
  calls[p] # <<>> /\ resp[p].json /\ resp[p].has_ok /\ resp[p].ok

\* The run made its delivery call and it failed: no answer, an error
\* status, or an acknowledgment without ok = true.
DeliveryFailed(p) ==
  calls[p] # <<>> /\ ~(resp[p].json /\ resp[p].has_ok /\ resp[p].ok)

\* Visible and not expired at clock t.
Eligible(c, t) ==
  /\ c.is_visible.tag \in {"int", "numstr"}
  /\ c.is_visible.n = 1
  /\ \/ c.expires_at.kind = "absent"
     \/ c.expires_at.kind \in {"naive", "aware"} /\ c.expires_at.t > t

\* Feed positions of the coupons eligible when the run selected.
EligibleIn(p) ==
  {i \in 1..Len(coupons[p]) : Eligible(coupons[p][i], selected_at[p])}

\* The published set the run loaded.
LoadedIds(p) == SetOf(pre[p].published_ids)

\* The instant a record is sorted by: creation timestamp, else expiry,
\* else the epoch; the clock t when that date cannot be parsed.
KeyAt(c, t) ==
  LET d == IF c.created_at.kind # "absent" THEN c.created_at
           ELSE IF c.expires_at.kind # "absent" THEN c.expires_at
           ELSE Epoch
  IN IF d.kind = "bad" THEN t ELSE d.t

\* Position i comes no later than position j in the ascending stable order.
Precedes(p, i, j) ==
  LET ki == KeyAt(coupons[p][i], selected_at[p])
      kj == KeyAt(coupons[p][j], selected_at[p])
  IN ki < kj \/ (ki = kj /\ i <= j)

\* C1: a run whose delivery fails leaves published_ids and last_run of the
\* state file exactly as they were before the run and exits with a non-zero
\* status; the file differs from what the run found only if its delivery
\* was acknowledged.
C1_FailedDeliveryKeepsState ==
  \A p \in Scheduled :
    /\ (pc[p] # "idle" /\ file # pre[p]) => DeliveryAcked(p)
    /\ (Ended(p) /\ DeliveryFailed(p)) =>
         /\ file = pre[p]
         /\ exit_code[p] \notin {0, None}

\* C1 witness: a run ended after an acknowledgment with ok = false, with a
\* non-empty published set on file.
C1_Witness ==
  \E p \in Scheduled :
    /\ Ended(p) /\ DeliveryFailed(p)
    /\ resp[p].json /\ resp[p].has_ok
    /\ file.kind = "json" /\ file.published_ids # <<>>

\* The runs so far all fetched one feed of eligible coupons with pairwise
\* distinct identifiers, starting from an empty published set, and every
\* delivery was acknowledged.
SteadyRuns ==
  /\ hist.steady /\ hist.started
  /\ \A i, j \in 1..Len(hist.feed) :
       i # j => FeedId(hist.feed[i]) # FeedId(hist.feed[j])

\* Posts j and k belong to the same pass through the feed.
SamePass(j, k) ==
  (j - 1) \div Len(hist.feed) = (k - 1) \div Len(hist.feed)

\* Within a pass no coupon is posted twice and the posts come in ascending
\* order of sort key, feed order among equal keys.
PostsAdvance ==
  LET ps == hist.posts
      key(j) == KeyAt(hist.feed[ps[j].i], ps[j].at)
  IN /\ \A j, k \in 1..Len(ps) :
          (j < k /\ SamePass(j, k)) => ps[j].i # ps[k].i
     /\ \A j \in 1..(Len(ps) - 1) :
          SamePass(j, j + 1) =>
            \/ key(j) < key(j + 1)
            \/ key(j) = key(j + 1) /\ ps[j].i < ps[j + 1].i

Unpublished(p) ==
  {i \in EligibleIn(p) : FeedId(coupons[p][i]) \notin LoadedIds(p)}

\* C3: when some eligible coupon's identifier is outside the published set,
\* the selected coupon is the first such coupon of the ascending sorted
\* sequence; among equal sort keys the earlier one in the feed.
C3_SelectsFirstUnpublished ==
  \A p \in Scheduled :
    (next_coupon[p] # 0 /\ Unpublished(p) # {}) =>
      /\ next_coupon[p] \in Unpublished(p)
      /\ \A j \in Unpublished(p) : Precedes(p, next_coupon[p], j)

\* C3 witness: a selection among two unpublished coupons with equal keys.
C3_Witness ==
  \E p \in Scheduled :
    /\ next_coupon[p] # 0
    /\ \E i, j \in Unpublished(p) :
         /\ i # j
         /\ KeyAt(coupons[p][i], selected_at[p]) = KeyAt(coupons[p][j], selected_at[p])

\* The post of the run is on file: save_state returned.
Saved(p) == pc[p] = "git" \/ git[p] # "none"

\* C4: if every eligible coupon's identifier is in the published set, the
\* selection clears the set and returns the sorted-first eligible coupon;
\* once its post is recorded, its identifier is the only member of the
\* persisted published set.
C4_CycleReset ==
  \A p \in Scheduled :
    /\ (next_coupon[p] # 0 /\ Unpublished(p) = {}) =>
         /\ did_reset[p]
         /\ next_coupon[p] \in EligibleIn(p)
         /\ \A j \in EligibleIn(p) : Precedes(p, next_coupon[p], j)
         /\ pc[p] = "post" => published_ids[p] = {}
    /\ (did_reset[p] /\ Saved(p)) =>
         /\ file.kind = "json"
         /\ file.published_ids = <<FeedId(coupons[p][next_coupon[p]])>>

\* C4 witness: a reset run with two identifiers on file recorded its post.
C4_Witness ==
  \E p \in Scheduled :
    /\ did_reset[p] /\ Saved(p)
    /\ Len(pre[p].published_ids) >= 2

\* C5 as stated: a cycle reset reaches the persisted state at once, so
\* after a reset run whose delivery fails the persisted published set is
\* empty.
C5_ResetPersistedAtOnce ==
  \A p \in Scheduled :
    (Ended(p) /\ did_reset[p] /\ DeliveryFailed(p)) =>
      file.published_ids = <<>>

\* C5 amended: a cycle reset clears the run's in-memory set and dict at
\* once and leaves the state file alone; after a reset run whose delivery
\* fails the persisted published set is the non-empty set the run loaded.
C5_ResetInMemoryOnly ==
  \A p \in Scheduled :
    did_reset[p] =>
      /\ pc[p] = "post" =>
           /\ published_ids[p] = {}
           /\ state[p].published_ids = <<>>
           /\ file = pre[p]
      /\ (Ended(p) /\ DeliveryFailed(p)) =>
           /\ state[p].published_ids = <<>>
           /\ file = pre[p]
           /\ file.published_ids # <<>>

\* C5 witness: a reset run ended on a failed delivery.
C5_Witness ==
  \E p \in Scheduled : Ended(p) /\ did_reset[p] /\ DeliveryFailed(p)

\* C6 as stated: an identifier is in the persisted published set if and
\* only if a post for it succeeded and was recorded.
C6_PublishedIffRecorded ==
  file.kind # "partial" => SetOf(file.published_ids) = recorded

\* C6 amended: an identifier is in the persisted published set only if a
\* post for it succeeded and was recorded (a cycle reset removes recorded
\* identifiers again).
C6_PublishedOnlyIfRecorded ==
  file.kind # "partial" => SetOf(file.published_ids) \subseteq recorded

\* C6 witness: the file holds two recorded identifiers.
C6_Witness ==
  /\ file.kind = "json"
  /\ Cardinality(SetOf(file.published_ids)) >= 2
  /\ SetOf(file.published_ids) \subseteq recorded

\* The run has nothing to post: an empty feed or no eligible coupon.
NothingToPost(p) == coupons[p] = <<>> \/ EligibleIn(p) = {}

\* The run got as far as fetching the feed.
FetchedAndEnded(p) == Ended(p) /\ ended_in[p] \notin {"startup", "load"}

\* C8: a run whose feed is empty or holds no eligible coupon never reaches
\* the delivery call, leaves the state file unchanged and exits with 0.
C8_NoOpRun ==
  \A p \in Scheduled :
    /\ pc[p] \in {"post", "record", "dump", "git"} => ~NothingToPost(p)
    /\ (FetchedAndEnded(p) /\ NothingToPost(p)) =>
         /\ pc[p] = "exited"
         /\ exit_code[p] = 0
         /\ calls[p] = <<>>
         /\ file = pre[p]

\* C8 witness: a run with a non-empty feed and a state file on disk ended
\* for want of an eligible coupon.
C8_Witness ==
  \E p \in Scheduled :
    /\ FetchedAndEnded(p) /\ coupons[p] # <<>> /\ EligibleIn(p) = {}
    /\ file.kind = "json"

\* The records of the feed are malformed in dates and flags at most: every
\* identifier converts and no store is null.
OnlyDatesOrFlagsBad(cs) ==
  \A i \in 1..Len(cs) :
    /\ cs[i].coupon_id.tag # "badstr" /\ cs[i].id.tag # "badstr"
    /\ cs[i].store # "null"

\* C9: a bad date or flag never crashes the run; every configured run that
\* could read its state file ends as a no-op (0), a post (0) or a delivery
\* failure (non-zero).
C9_BadRecordNeverCrashes ==
  \A p \in Scheduled :
    (FetchedAndEnded(p) /\ OnlyDatesOrFlagsBad(coupons[p])) =>
      /\ pc[p] = "exited"
      /\ \/ exit_code[p] = 0 /\ calls[p] = <<>>
         \/ exit_code[p] = 0 /\ DeliveryAcked(p)
         \/ exit_code[p] \notin {0, None} /\ DeliveryFailed(p)

\* C10: when the archival step fails after an acknowledged delivery, the
\* run exits with 0 and the state file holds the posted identifier and the
\* last_run of this run.
C10_ArchivalFailureIsSuccess ==
  \A p \in Scheduled :
    (Ended(p) /\ git[p] \in {"failed", "raised"}) =>
      /\ pc[p] = "exited" /\ exit_code[p] = 0
      /\ DeliveryAcked(p)
      /\ file.kind = "json"
      /\ FeedId(coupons[p][next_coupon[p]]) \in SetOf(file.published_ids)
      /\ file.last_run >= selected_at[p] /\ file.last_run <= now

\* C10 witness: git failed in a run that found an older state file.
C10_Witness ==
  \E p \in Scheduled :
    /\ Ended(p) /\ git[p] = "failed"
    /\ pre[p].kind = "json" /\ file.last_run > pre[p].last_run

\* ------------------------------------------------- the eligibility filter
\* The filter applied to every combination of visibility flag, expiry and
\* clock: the first run has fetched a feed of one record and is about to
\* filter it.
FlagValues ==
  {Missing, Null, IntV(0), IntV(1), IntV(2), NumStr(0), NumStr(1), BadStr}

DateValues ==
  {NoDate, BadDate} \cup {Naive(t) : t \in 1..MaxTime}
                    \cup {Aware(t) : t \in 1..MaxTime}

FilterInputs ==
  {Coupon(IntV(1), Missing, v, e, NoDate, "missing", FALSE) :
     v \in FlagValues, e \in DateValues}

InitFilter ==
  /\ file = NoFile
  /\ now \in 1..MaxTime
  /\ pc = [p \in Procs |-> IF p \in Scheduled THEN "select" ELSE "idle"]
  /\ state = [p \in Procs |-> FreshState]
  /\ published_ids = [p \in Procs |-> {}]
  /\ \E c \in FilterInputs :
       /\ coupons = [p \in Procs |-> IF p \in Scheduled THEN <<c>> ELSE <<>>]
       /\ hist = [NoRuns EXCEPT !.started = TRUE, !.feed = <<c>>]
  /\ valid_sorted = [p \in Procs |-> <<>>]
  /\ next_coupon = [p \in Procs |-> 0]
  /\ resp = [p \in Procs |-> NoResp]
  /\ exit_code = [p \in Procs |-> None]
  /\ calls = [p \in Procs |-> <<>>]
  /\ did_reset = [p \in Procs |-> FALSE]
  /\ git = [p \in Procs |-> "none"]
  /\ selected_at = [p \in Procs |-> 0]
  /\ ended_in = [p \in Procs |-> "none"]
  /\ pre = [p \in Procs |-> NoFile]
  /\ recorded = {}

NextFilter == \E p \in Scheduled : SelectNext(p)

SpecFilter == InitFilter /\ [][NextFilter]_vars

\* C7: is_valid_coupon holds of a record exactly if its visibility flag
\* converts to the integer 1 and its expiry is missing, empty, or (read as
\* UTC when it names no timezone) strictly after the clock; a flag or an
\* expiry that does not parse makes the record invalid and raises nothing.
C7_ValidIffVisibleAndUnexpired ==
  \A p \in Scheduled :
    pc[p] # "select" =>
      /\ pc[p] # "crashed"
      /\ \A i \in 1..Len(coupons[p]) :
           (i \in SetOf(valid_sorted[p])) <=>
             Eligible(coupons[p][i], selected_at[p])
      /\ (pc[p] = "exited") <=> (valid_sorted[p] = <<>>)

\* C7 witness: a visible record whose expiry is the current instant was
\* filtered out.
C7_Witness ==
  \E p \in Scheduled :
    /\ pc[p] = "exited"
    /\ coupons[p][1].is_visible = NumStr(1)
    /\ coupons[p][1].expires_at = Naive(selected_at[p])

\* --------------------------------------------------------- overlapping runs
\* Nothing in the script keeps two invocations apart (no lock file, no
\* compare-and-swap on the state file): a second invocation started while
\* the first is under way takes its steps in any interleaving with it. The
\* feed is the same for both, and the clock stands still meanwhile.
RaceFeeds == {<<cPlainA, cPlainB>>}

RunRace(p) ==
  \/ Startup(p)
  \/ LoadState(p)
  \/ FetchFrom(p, RaceFeeds)
  \/ SelectNext(p)
  \/ PostToTelegram(p)
  \/ RecordOpen(p)
  \/ RecordDump(p)
  \/ GitCommitAndPush(p)

NextRace == \E p \in Procs : RunRace(p)

SpecRace == Init /\ [][NextRace]_vars

\* C11: saving the state is atomic for a reader: while one run is inside
\* save_state (the file opened for writing, the dump not yet done), another
\* run about to call load_state finds a complete state in the file, the
\* previous one or the new one, never a file cut short.
C11_SaveIsAtomic ==
  \A p, q \in Procs :
    (p # q /\ pc[p] = "dump" /\ pc[q] = "load") => file.kind # "partial"

\* The published set a run that saved its post put in the file: what it
\* loaded, or nothing after a reset, and the identifier it delivered.
OwnView(p) ==
  (IF did_reset[p] THEN {} ELSE LoadedIds(p))
    \cup {FeedId(coupons[p][next_coupon[p]])}

\* C12: overlapping runs are not kept apart. Two runs that loaded the same
\* published set select the same coupon, whatever the other has delivered
\* meanwhile (double post), and the write of a run puts into the file the
\* set that run loaded plus its own identifier, whatever another run has
\* written since the load (lost update).
C12_RunsUnguarded ==
  /\ [](\A p, q \in Procs :
         (/\ next_coupon[p] # 0 /\ next_coupon[q] # 0
          /\ coupons[p] = coupons[q] /\ selected_at[p] = selected_at[q]
          /\ LoadedIds(p) = LoadedIds(q))
           => next_coupon[p] = next_coupon[q])
  /\ [][\A p \in Procs :
         (pc[p] = "dump" /\ pc'[p] = "git") =>
           SetOf(file'.published_ids) = OwnView(p)]_vars

\* C12 witness: three acknowledged and saved posts of a feed of two coupons,
\* no run having reset: one coupon was posted twice, both current runs have
\* ended with their post saved, and the identifier one of them saved is no
\* longer in the file, which the other overwrote.
C12_Witness ==
  /\ SteadyRuns /\ hist.written
  /\ Len(hist.feed) = 2 /\ Len(hist.posts) = 3
  /\ \E j, k \in 1..3 : j < k /\ hist.posts[j].i = hist.posts[k].i
  /\ \A p \in Procs :
       Ended(p) /\ DeliveryAcked(p) /\ Saved(p) /\ ~did_reset[p]
  /\ file.kind = "json"
  /\ \E p \in Procs :
       FeedId(coupons[p][next_coupon[p]]) \notin SetOf(file.published_ids)

\* ------------------------------------------------------------ caption runs
\* make_caption on records whose caption fields run from empty to longer
\* than the limit: a run that has selected the only coupon of its feed and
\* is about to call make_caption and deliver.
TitleLens == {0, 1, 930, 931, 932, 2000}
FieldLens == {0, 1, 40}
ExpiresLens == {0, 19}

CaptionInputs ==
  {[Coupon(Missing, IntV(1), IntV(1),
           IF x = 0 THEN NoDate ELSE Naive(MaxTime + 1), NoDate, st, FALSE)
      EXCEPT !.text = <<t, d, k, n, m, x, l>>] :
     t \in TitleLens, d \in FieldLens, k \in FieldLens, n \in FieldLens,
     m \in FieldLens, x \in ExpiresLens, l \in FieldLens,
     st \in {"logo", "missing"}}

InitCaption ==
  /\ file = NoFile
  /\ now = 1
  /\ pc = [p \in Procs |-> IF p \in Scheduled THEN "post" ELSE "idle"]
  /\ state = [p \in Procs |-> FreshState]
  /\ published_ids = [p \in Procs |-> {}]
  /\ \E c \in CaptionInputs :
       /\ coupons = [p \in Procs |-> IF p \in Scheduled THEN <<c>> ELSE <<>>]
       /\ hist = [NoRuns EXCEPT !.started = TRUE, !.feed = <<c>>]
  /\ valid_sorted =
       [p \in Procs |-> IF p \in Scheduled THEN <<1>> ELSE <<>>]
  /\ next_coupon = [p \in Procs |-> IF p \in Scheduled THEN 1 ELSE 0]
  /\ resp = [p \in Procs |-> NoResp]
  /\ exit_code = [p \in Procs |-> None]
  /\ calls = [p \in Procs |-> <<>>]
  /\ did_reset = [p \in Procs |-> FALSE]
  /\ git = [p \in Procs |-> "none"]
  /\ selected_at = [p \in Procs |-> IF p \in Scheduled THEN 1 ELSE 0]
  /\ ended_in = [p \in Procs |-> "none"]
  /\ pre = [p \in Procs |-> NoFile]
  /\ recorded = {}

NextCaption == \E p \in Scheduled : PostToTelegram(p)

SpecCaption == InitCaption /\ [][NextCaption]_vars

\* The length of the untruncated caption of a record: 65 for the closing
\* lines, and for each non-empty field its label, its value, and the two
\* line ends after it.
RawCaptionLen(c) ==
  LET label == <<2, 2, 12, 12, 11, 13, 16>>
      RECURSIVE Sum(_)
      Sum(i) == IF i = 0 THEN 65
                ELSE Sum(i - 1) +
                     (IF c.text[i] = 0 THEN 0 ELSE label[i] + c.text[i] + 2)
  IN Sum(7)

\* C13: the caption handed to the delivery call is at most 1000 units
\* long; a text longer than 1000 is cut to its first 997 units followed by
\* a three-character ellipsis, a text of at most 1000 goes out whole.
C13_CaptionAtMost1000 ==
  \A p \in Scheduled : \A i \in 1..Len(calls[p]) :
    LET cap == calls[p][i].caption
        raw == RawCaptionLen(coupons[p][next_coupon[p]])
    IN /\ cap.units + cap.dots <= 1000
       /\ raw > 1000 => (cap.units = 997 /\ cap.dots = 3)
       /\ raw <= 1000 => (cap.units = raw /\ cap.dots = 0)

\* C13 witness: a caption of 1001 units was delivered cut, with the
\* ellipsis.
C13_Witness ==
  \E p \in Scheduled :
    /\ calls[p] # <<>>
    /\ RawCaptionLen(coupons[p][next_coupon[p]]) = 1001
    /\ calls[p][1].caption.dots = 3

\* C14: a run ends with status 2 exactly if the bot token or the channel
\* id is missing, and such a run has done nothing else: it fetched no feed,
\* selected nothing, made no delivery call, ran no git command and left
\* the state file as it found it.
C14_MissingConfigExitsTwo ==
  \A p \in Scheduled :
    /\ (exit_code[p] = 2) <=> (Ended(p) /\ ended_in[p] = "startup")
    /\ (Ended(p) /\ ended_in[p] = "startup") =>
         /\ pc[p] = "exited"
         /\ coupons[p] = <<>> /\ next_coupon[p] = 0
         /\ calls[p] = <<>>
         /\ git[p] = "none"
         /\ file = pre[p]

\* C14 witness: a run ended with status 2 although the state file holds
\* published identifiers.
C14_Witness ==
  \E p \in Scheduled :
    /\ Ended(p) /\ exit_code[p] = 2
    /\ file.kind = "json" /\ file.published_ids # <<>>

\* C15: a run makes at most one delivery call, by photo when the record
\* has a logo address and by text otherwise; after a call that failed the
\* run has ended, with no second call.
C15_OneDeliveryCall ==
  \A p \in Scheduled :
    /\ Len(calls[p]) <= 1
    /\ calls[p] # <<>> =>
         LET c == coupons[p][next_coupon[p]]
         IN calls[p][1].method =
              IF c.store = "logo" \/ c.logo_url THEN "photo" ELSE "text"
    /\ DeliveryFailed(p) =>
         /\ pc[p] = "exited" /\ ended_in[p] = "post"
         /\ exit_code[p] = 1

\* C15 witness: a run ended after a text delivery that got no answer.
C15_Witness ==
  \E p \in Scheduled :
    /\ Ended(p) /\ DeliveryFailed(p)
    /\ ~resp[p].json
    /\ calls[p][1].method = "text"

\* The date a record is sorted by: creation timestamp, else expiry, else
\* the epoch.
KeyDate(c) ==
  IF c.created_at.kind # "absent" THEN c.created_at
  ELSE IF c.expires_at.kind # "absent" THEN c.expires_at
  ELSE Epoch

\* The place of feed position i in the sorted sequence of the run.
PlaceOf(p, i) ==
  CHOOSE k \in 1..Len(valid_sorted[p]) : valid_sorted[p][k] = i

\* C16: in the sorted sequence of a run, an eligible coupon whose date
\* cannot be parsed comes after every eligible coupon whose date parses,
\* and it is selected without a reset only when each of those is already
\* in the published set.
C16_BadDateSortsLast ==
  \A p \in Scheduled :
    next_coupon[p] # 0 =>
      \A i, j \in EligibleIn(p) :
        (KeyDate(coupons[p][i]).kind = "bad" /\
         KeyDate(coupons[p][j]).kind \in {"naive", "aware"}) =>
          /\ PlaceOf(p, j) < PlaceOf(p, i)
          /\ (next_coupon[p] = i /\ ~did_reset[p]) =>
                FeedId(coupons[p][j]) \in LoadedIds(p)

\* C17: records that share an identifier are told apart by nothing. While
\* the identifier is in the published set the run loaded, a run that does
\* not reset selects none of them; and the one a run selects, with or
\* without a reset, is the first of them in the sorted order.
C17_SharedIdIsOneCoupon ==
  \A p \in Scheduled :
    next_coupon[p] # 0 =>
      LET sel == next_coupon[p]
      IN /\ ~did_reset[p] => FeedId(coupons[p][sel]) \notin LoadedIds(p)
         /\ \A j \in EligibleIn(p) :
              FeedId(coupons[p][j]) = FeedId(coupons[p][sel]) =>
                Precedes(p, sel, j)

\* C17 witness: after a reset, a run delivered a coupon whose identifier an
\* earlier run had recorded and which another eligible record shares.
C17_Witness ==
  \E p \in Scheduled :
    /\ did_reset[p] /\ DeliveryAcked(p)
    /\ FeedId(coupons[p][next_coupon[p]]) \in LoadedIds(p)
    /\ \E j \in EligibleIn(p) :
         /\ j # next_coupon[p]
         /\ FeedId(coupons[p][j]) = FeedId(coupons[p][next_coupon[p]])

\* The identifiers a reader finds in the state file: none when the file is
\* missing or cannot be decoded.
PersistedIds ==
  IF file.kind = "json" THEN SetOf(file.published_ids) ELSE {}

\* C18: a run that saved its post without a reset leaves in the file what
\* it loaded and the identifier it posted, nothing else; and when a run has
\* ended, an identifier it loaded is missing from the file only if the run
\* took the cycle reset.
C18_IdsLeaveOnlyByReset ==
  \A p \in Scheduled :
    /\ (Saved(p) /\ ~did_reset[p]) =>
         PersistedIds =
           LoadedIds(p) \cup {FeedId(coupons[p][next_coupon[p]])}
    /\ (Ended(p) /\ \E x \in LoadedIds(p) : x \notin PersistedIds) =>
         did_reset[p]

\* C19: the coupon of a delivery call was eligible when the run selected
\* it, whether the scan found it or the cycle reset took it.
C19_DeliveredWasEligible ==
  \A p \in Scheduled :
    calls[p] # <<>> =>
      /\ next_coupon[p] \in 1..Len(coupons[p])
      /\ Eligible(coupons[p][next_coupon[p]], selected_at[p])

\* C19 witness: a delivery on the reset path, from a feed that also holds
\* a record that is not eligible.
C19_Witness ==
  \E p \in Scheduled :
    /\ calls[p] # <<>> /\ did_reset[p]
    /\ \E i \in 1..Len(coupons[p]) : i \notin EligibleIn(p)

\* C20: a run whose delivery was acknowledged ends with status 0 whatever
\* happens while the post is recorded: when the state file cannot be
\* opened it stays as the run found it, when the dump fails it is left cut
\* short, and when the archival step raises the file holds the post.
C20_RecordFailureIsSwallowed ==
  \A p \in Scheduled :
    /\ (Ended(p) /\ DeliveryAcked(p)) =>
         /\ pc[p] = "exited" /\ exit_code[p] = 0
         /\ ended_in[p] = "record" => file = pre[p]
         /\ ended_in[p] = "dump" => file.kind = "partial"
         /\ git[p] = "raised" =>
              FeedId(coupons[p][next_coupon[p]]) \in PersistedIds
    /\ (Ended(p) /\ ended_in[p] \in {"record", "dump"}) => DeliveryAcked(p)

\* C20 witness: a run ended with status 0 after an acknowledged delivery of
\* the coupon the run before it had delivered and failed to record, other
\* coupons of the feed still waiting.
C20_Witness ==
  \E p \in Scheduled :
    /\ Ended(p) /\ DeliveryAcked(p) /\ exit_code[p] = 0
    /\ ~did_reset[p]
    /\ hist.steady /\ ~hist.written
    /\ Len(hist.feed) >= 2 /\ Len(hist.posts) = 2
    /\ hist.posts[1].i = hist.posts[2].i

====
